---------------------------- MODULE Spec2Model ----------------------------
(***************************************************************************)
(* Model of the clone service (Clone, createWorkflowTask,                  *)
(* validateCloneRequest) and of the pod controller's promotion handlers    *)
(* (handlePostgresPodPromotion, handleStandbyPromotion,                    *)
(* waitForStandbyPromotion, cleanAndCreatePostFailoverBackup).             *)
(*                                                                         *)
(* Strings built with fmt.Sprintf / "+" are sequences of tokens; a token   *)
(* is a literal piece of the format or an argument.  "Contains" on such a  *)
(* message is membership of a token.                                       *)
(***************************************************************************)
EXTENDS Naturals, Integers, Sequences, FiniteSets, TLC

(***************************************************************************)
(* Bounds of the model                                                     *)
(***************************************************************************)
\* number of clone-labelled tasks the store may hold before any Clone runs
MaxPreTasks == 1
\* the five-minute deadline of waitForStandbyPromotion, counted in 500 ms ticks
DeadlineTicks == 3
\* how many tick periods past the deadline the clock of the model runs
ExtraTicks == 2

(***************************************************************************)
(* Values                                                                  *)
(***************************************************************************)
Procs == {"p1", "p2"}

SourceNames == {"", "a"}
TargetNames == {"", "b"}
ClusterNames == {"a", "b"}
Quantities == {"1Gi", "bogus"}
StorageSources == {"", "s3"}
WorkflowIDs == {"w1", "w2"}
UIDs == {"u1", "u2"}

Ok == "ok"
Error == "error"

CompletedStatus == "completed"
TaskStatuses == {"pending", "running", "failed", CompletedStatus}

PgtaskWorkflow == "workflow"
PgtaskWorkflowCloneType == "cloneworkflow"
PgtaskCloneStep1 == "clone-step-1"

UpgradeError == "UpgradeError"

\* cluster.Spec.UserLabels[LABEL_BACKREST_STORAGE_TYPE] of every cluster of the model
ClusterStorageType == "local"

NoWorkflowID == ""

CloneRequests ==
    [SourceClusterName : SourceNames, TargetClusterName : TargetNames,
     PVCSize : Quantities, BackrestPVCSize : Quantities,
     BackrestStorageSource : StorageSources]

NoRequest ==
    [SourceClusterName |-> "", TargetClusterName |-> "", PVCSize |-> "1Gi",
     BackrestPVCSize |-> "1Gi", BackrestStorageSource |-> ""]

\* msgs.CloneResponse as constructed at the top of Clone
InitialResponse ==
    [Code |-> Ok, Msg |-> <<>>, TargetClusterName |-> "", WorkflowID |-> NoWorkflowID]

Range(s) == {s[i] : i \in 1..Len(s)}

\* strings.Contains on a token sequence
MsgContains(msg, token) == token \in Range(msg)

RECURSIVE SelectSeqBy(_, _)
\* the subsequence of s whose elements are in the set keep, in s's order
SelectSeqBy(s, keep) ==
    IF s = <<>> THEN <<>>
    ELSE IF Head(s) \in keep THEN <<Head(s)>> \o SelectSeqBy(Tail(s), keep)
    ELSE SelectSeqBy(Tail(s), keep)

VARIABLES
    \* ---- the resource store (shared) ----
    clusters,      \* names of the Pgclusters in the store
    notUpgraded,   \* the Pgclusters annotated is-upgraded = false
    tasks,         \* the Pgtasks in the store, in creation order
    \* ---- one Clone invocation per process ----
    pc,            \* position of each invocation
    request,       \* its request
    response,      \* its response
    workflowID,    \* its local workflowID
    calls,         \* the resource-store calls it has made, in order
    \* ---- one promotion-handler invocation ----
    hpc,           \* position of the handler
    handler,       \* which handler runs: "none", "plain" or "standby"
    pgbouncer,     \* cluster.Labels[LABEL_PGBOUNCER] == "true"
    recoveryDisabled,
    clock,         \* elapsed 500 ms periods since the wait started
    tickReady,     \* a value is waiting in the tick channel
    lastTick,      \* what the last handled tick did
    waitResult,    \* result of waitForStandbyPromotion
    events,        \* the collaborator calls the handler has made, in order
    hresult,       \* what the handler returned
    \* ---- the cluster member the wait polls ----
    readyAt        \* the clock at which the member became ready for good; -1 before

cloneVars == <<clusters, notUpgraded, tasks, pc, request, response,
               workflowID, calls>>
promoVars == <<hpc, handler, pgbouncer, recoveryDisabled, clock, tickReady,
               lastTick, waitResult, events, hresult, readyAt>>
vars == <<clusters, notUpgraded, tasks, pc, request, response,
          workflowID, calls, hpc, handler, pgbouncer, recoveryDisabled, clock,
          tickReady, lastTick, waitResult, events, hresult, readyAt>>

\* lastTick before any tick has been handled
NoTick ==
    [startRD |-> FALSE, issuedA |-> FALSE, issuedB |-> FALSE, outA |-> <<>>,
     outB |-> [valid |-> FALSE, obj |-> <<>>]]

(***************************************************************************)
(* The resource store                                                      *)
(***************************************************************************)
\* Pgclusters(namespace).Get(name): the outcomes the store can give.  A Get
\* can fail for a reason other than the object being absent.
GetOutcomes(name) ==
    (IF name \in clusters THEN {"found"} ELSE {"notfound"}) \cup {"failed"}

\* the Pgcluster object a successful Get returns
Pgcluster(name) ==
    [Name |-> name, IsUpgradedFalse |-> name \in notUpgraded,
     StorageType |-> ClusterStorageType]

\* Pgtasks(namespace).List with LabelSelector "pgo-clone=true,pg-cluster=<target>"
ListCloneTasks(target) ==
    SelectSeqBy(tasks, {t \in Range(tasks) : t.clone /\ t.cluster = target})

TaskNames == {tasks[i].name : i \in 1..Len(tasks)}

\* a Create that succeeds for a name already in the store too
CanCreateDuplicate(task) == TRUE

\* Pgtasks(namespace).Create succeeds only for a name not yet in the store
CanCreate(task) == task.name \notin TaskNames

(***************************************************************************)
(* validateCloneRequest                                                    *)
(***************************************************************************)
\* apiserver.ValidateQuantity: nil for a well-formed size expression
ValidateQuantity(q) == IF q = "1Gi" THEN <<>> ELSE <<"invalid quantity", q>>

\* util.ValidateBackrestStorageTypeOnBackupRestore(source, clusterType, true)
ValidateBackrestStorageTypeOnBackupRestore(source, clusterType) ==
    IF source = "" \/ source = clusterType THEN <<>>
    ELSE <<"storage type not allowed", source>>

\* validateCloneRequest without its check of the target cluster name
validateCloneRequestNoTargetCheck(req, cluster) ==
    IF req.SourceClusterName = "" THEN <<"the source cluster name must be set">>
    ELSE IF ValidateQuantity(req.PVCSize) # <<>>
        THEN <<"ErrMessagePVCSize", req.PVCSize>> \o ValidateQuantity(req.PVCSize)
    ELSE IF ValidateQuantity(req.BackrestPVCSize) # <<>>
        THEN <<"ErrMessagePVCSize", req.BackrestPVCSize>>
                 \o ValidateQuantity(req.BackrestPVCSize)
    ELSE ValidateBackrestStorageTypeOnBackupRestore(req.BackrestStorageSource,
                                                    cluster.StorageType)

\* the error validateCloneRequest returns; <<>> is nil
validateCloneRequest(req, cluster) ==
    IF req.SourceClusterName = "" THEN <<"the source cluster name must be set">>
    ELSE IF req.TargetClusterName = "" THEN <<"the target cluster name must be set">>
    ELSE IF ValidateQuantity(req.PVCSize) # <<>>
        THEN <<"ErrMessagePVCSize", req.PVCSize>> \o ValidateQuantity(req.PVCSize)
    ELSE IF ValidateQuantity(req.BackrestPVCSize) # <<>>
        THEN <<"ErrMessagePVCSize", req.BackrestPVCSize>>
                 \o ValidateQuantity(req.BackrestPVCSize)
    ELSE ValidateBackrestStorageTypeOnBackupRestore(req.BackrestStorageSource,
                                                    cluster.StorageType)

(***************************************************************************)
(* Clone                                                                   *)
(***************************************************************************)
\* a failure path that sets the message and forgets the status code
ErrorResponseCodeNotSet(resp, msg) == [resp EXCEPT !.Msg = msg]

\* the response Clone returns on a failure path
ErrorResponse(resp, msg) == [resp EXCEPT !.Code = Error, !.Msg = msg]

\* leave the invocation of p with response resp
Return(p, resp) ==
    /\ response' = [response EXCEPT ![p] = resp]
    /\ pc' = [pc EXCEPT ![p] = "done"]

\* the non-completed clone tasks the store holds for a target
Conflicts(target) ==
    {t.name : t \in {u \in Range(tasks) :
                        u.clone /\ u.cluster = target /\ u.status # CompletedStatus}}

\* a resource-store call of an invocation: the operation, the name it is about,
\* its outcome and, for a list, the conflicting tasks the store held at the call
StoreCall(op, name, out) ==
    [op |-> op, name |-> name, out |-> out,
     conflicts |-> IF op = "list" THEN Conflicts(name) ELSE {}]

Call(p, op, name, out) == calls' = [calls EXCEPT ![p] = Append(@, StoreCall(op, name, out))]

\* the upgrade check left out
NotUpgradedCheckSkipped(sourcePgcluster) == FALSE

\* sourcePgcluster.Annotations[ANNOTATION_IS_UPGRADED] == ANNOTATIONS_FALSE
NotUpgradedCheck(sourcePgcluster) == sourcePgcluster.IsUpgradedFalse

\* a request arrives: Clone sets up its response
CloneStart(p) ==
    /\ pc[p] = "idle"
    /\ \E req \in CloneRequests :
          request' = [request EXCEPT ![p] = req]
    /\ response' = [response EXCEPT ![p] = InitialResponse]
    /\ pc' = [pc EXCEPT ![p] = "getSource"]
    /\ UNCHANGED <<clusters, notUpgraded, tasks, workflowID, calls, promoVars>>

\* Get of the source cluster, then validateCloneRequest, then the upgrade check
CloneGetSource(p) ==
    /\ pc[p] = "getSource"
    /\ \E out \in GetOutcomes(request[p].SourceClusterName) :
          LET req == request[p]
              sourcePgcluster == Pgcluster(req.SourceClusterName)
              verr == validateCloneRequest(req, sourcePgcluster)
          IN  /\ Call(p, "get", req.SourceClusterName, out)
              /\ IF out # "found"
                 THEN Return(p, ErrorResponse(response[p], <<"Could not get cluster: ", out>>))
                 ELSE IF verr # <<>>
                 THEN Return(p, ErrorResponse(response[p], verr))
                 ELSE IF NotUpgradedCheck(sourcePgcluster)
                 THEN Return(p, ErrorResponse(response[p],
                                   <<sourcePgcluster.Name, UpgradeError>>))
                 ELSE /\ pc' = [pc EXCEPT ![p] = "getTarget"]
                      /\ UNCHANGED response
    /\ UNCHANGED <<clusters, notUpgraded, tasks, request, workflowID, promoVars>>

\* Get of the target cluster: only err == nil counts as "exists"
CloneGetTarget(p) ==
    /\ pc[p] = "getTarget"
    /\ \E out \in GetOutcomes(request[p].TargetClusterName) :
          /\ Call(p, "get", request[p].TargetClusterName, out)
          /\ IF out = "found"
             THEN Return(p, ErrorResponse(response[p],
                      <<"Could not clone cluster: ", request[p].TargetClusterName,
                        " already exists">>))
             ELSE /\ pc' = [pc EXCEPT ![p] = "listTasks"]
                  /\ UNCHANGED response
    /\ UNCHANGED <<clusters, notUpgraded, tasks, request, workflowID, promoVars>>

RECURSIVE FirstNotCompletedOrFailed(_)
\* the loop with a test that also lets failed tasks pass
FirstNotCompletedOrFailed(items) ==
    IF items = <<>> THEN <<>>
    ELSE IF Head(items).status \notin {CompletedStatus, "failed"} THEN <<Head(items)>>
    ELSE FirstNotCompletedOrFailed(Tail(items))

RECURSIVE FirstNotCompleted(_)
\* the loop over taskList.Items: the first task whose status is not completed,
\* as a one-element sequence; <<>> when the loop runs to its end
FirstNotCompleted(items) ==
    IF items = <<>> THEN <<>>
    ELSE IF Head(items).status # CompletedStatus THEN <<Head(items)>>
    ELSE FirstNotCompleted(Tail(items))

\* List of the clone tasks of the target, then the loop over them
CloneListTasks(p) ==
    /\ pc[p] = "listTasks"
    /\ \E ok \in BOOLEAN :
          LET taskList == ListCloneTasks(request[p].TargetClusterName)
              found == FirstNotCompleted(taskList)
          IN  /\ Call(p, "list", request[p].TargetClusterName,
                       IF ok THEN "listed" ELSE "failed")
              /\ IF ~ok
                 THEN Return(p, ErrorResponse(response[p],
                          <<"Could not clone cluster: could not validate ", "failed">>))
                 ELSE IF found # <<>>
                 THEN Return(p, ErrorResponse(response[p],
                          <<"Could not clone cluster: there exists an ongoing clone task: [",
                            found[1].name, "]. If you believe this is an error, try deleting this pgtask CRD.">>))
                 ELSE /\ pc' = [pc EXCEPT ![p] = "createWorkflow"]
                      /\ UNCHANGED response
    /\ UNCHANGED <<clusters, notUpgraded, tasks, request, workflowID, promoVars>>

(***************************************************************************)
(* createWorkflowTask and the step-one task                                *)
(***************************************************************************)
\* what ioutil.ReadFile("/proc/sys/kernel/random/uuid") can return: the
\* identifier followed by a newline, as a sequence <<identifier, newline>>
UUIDFileContents == {<<w, "\n">> : w \in WorkflowIDs}

\* id := string(u[:len(u)-1])
WorkflowIDOf(u) == SubSeq(u, 1, Len(u) - 1)[1]

\* taskName := fmt.Sprintf("%s-%s-%s", targetClusterName, uid, PgtaskWorkflowCloneType)
WorkflowTaskName(targetClusterName, uid) ==
    targetClusterName \o "-" \o uid \o "-" \o PgtaskWorkflowCloneType

\* the workflow Pgtask labelled with the uid of its name instead of the identifier
WorkflowTaskLabelledWithUID(targetClusterName, uid, id) ==
    [name |-> WorkflowTaskName(targetClusterName, uid), clone |-> FALSE,
     cluster |-> targetClusterName, type |-> PgtaskWorkflow, status |-> "",
     wfid |-> uid]

\* the Pgtask createWorkflowTask builds: labelled pg-cluster and workflowid only
WorkflowTask(targetClusterName, uid, id) ==
    [name |-> WorkflowTaskName(targetClusterName, uid), clone |-> FALSE,
     cluster |-> targetClusterName, type |-> PgtaskWorkflow, status |-> "",
     wfid |-> id]

\* util.CloneTask{...}.Create(): the step-one Pgtask, labelled as a clone task of
\* the target cluster and carrying the workflow identifier
CloneTaskCreate(req, wfid) ==
    [name |-> req.TargetClusterName \o "-" \o PgtaskCloneStep1 \o "-" \o wfid,
     clone |-> TRUE, cluster |-> req.TargetClusterName, type |-> PgtaskCloneStep1,
     status |-> "pending", wfid |-> wfid]

\* createWorkflowTask(request.TargetClusterName, uid, namespace) and the check of
\* its error in Clone
CloneCreateWorkflow(p) ==
    /\ pc[p] = "createWorkflow"
    /\ \E uid \in UIDs, readOk \in BOOLEAN, u \in UUIDFileContents, createOk \in BOOLEAN :
          LET id == WorkflowIDOf(u)
              task == WorkflowTask(request[p].TargetClusterName, uid, id)
          IN  IF ~readOk
              THEN /\ Return(p, ErrorResponse(response[p],
                          <<"could not create clone workflow task: ", "read failed">>))
                   /\ UNCHANGED <<tasks, workflowID, calls>>
              ELSE IF ~(createOk /\ CanCreate(task))
              THEN /\ Call(p, "create", task.name, "failed")
                   /\ Return(p, ErrorResponse(response[p],
                          <<"could not create clone workflow task: ", "create failed">>))
                   /\ UNCHANGED <<tasks, workflowID>>
              ELSE /\ Call(p, "create", task.name, "created")
                   /\ tasks' = Append(tasks, task)
                   /\ workflowID' = [workflowID EXCEPT ![p] = id]
                   /\ pc' = [pc EXCEPT ![p] = "createTask"]
                   /\ UNCHANGED response
    /\ UNCHANGED <<clusters, notUpgraded, request, promoVars>>

\* the step-one Pgtask created and an Error status returned all the same
CloneCreateTaskReportingFailure(p) ==
    /\ pc[p] = "createTask"
    /\ \E createOk \in BOOLEAN :
          LET task == CloneTaskCreate(request[p], workflowID[p])
          IN  IF ~CanCreate(task)
              THEN /\ Call(p, "create", task.name, "failed")
                   /\ Return(p, ErrorResponse(response[p],
                          <<"Could not create clone task: ", "create failed">>))
                   /\ UNCHANGED tasks
              ELSE /\ Call(p, "create", task.name, "created")
                   /\ tasks' = Append(tasks, task)
                   /\ IF createOk
                      THEN Return(p, [response[p] EXCEPT
                                    !.TargetClusterName = request[p].TargetClusterName,
                                    !.WorkflowID = workflowID[p]])
                      ELSE Return(p, ErrorResponse(response[p],
                                    <<"Could not create clone task: ", "create failed">>))
    /\ UNCHANGED <<clusters, notUpgraded, request, workflowID, promoVars>>

\* Create of the step-one Pgtask, then the successful return
CloneCreateTask(p) ==
    /\ pc[p] = "createTask"
    /\ \E createOk \in BOOLEAN :
          LET task == CloneTaskCreate(request[p], workflowID[p])
          IN  IF ~(createOk /\ CanCreate(task))
              THEN /\ Call(p, "create", task.name, "failed")
                   /\ Return(p, ErrorResponse(response[p],
                          <<"Could not create clone task: ", "create failed">>))
                   /\ UNCHANGED tasks
              ELSE /\ Call(p, "create", task.name, "created")
                   /\ tasks' = Append(tasks, task)
                   /\ Return(p, [response[p] EXCEPT
                                    !.TargetClusterName = request[p].TargetClusterName,
                                    !.WorkflowID = workflowID[p]])
    /\ UNCHANGED <<clusters, notUpgraded, request, workflowID, promoVars>>

(***************************************************************************)
(* The store before any Clone runs                                         *)
(***************************************************************************)
\* a clone task of target "b" left by an earlier clone
PreTask(i, st) ==
    [name |-> IF i = 1 THEN "old1" ELSE IF i = 2 THEN "old2" ELSE "old3",
     clone |-> TRUE, cluster |-> "b", type |-> PgtaskCloneStep1, status |-> st,
     wfid |-> "w0"]

PreTaskLists ==
    UNION {{[i \in 1..n |-> PreTask(i, sts[i])] : sts \in [1..n -> TaskStatuses]}
              : n \in 0..MaxPreTasks}

CloneInit ==
    /\ clusters \in SUBSET ClusterNames
    /\ notUpgraded \in SUBSET (clusters \cap {"a"})
    /\ tasks \in PreTaskLists
    /\ pc = [p \in Procs |-> "idle"]
    /\ request = [p \in Procs |-> NoRequest]
    /\ response = [p \in Procs |-> InitialResponse]
    /\ workflowID = [p \in Procs |-> NoWorkflowID]
    /\ calls = [p \in Procs |-> <<>>]

PromoIdle ==
    /\ hpc = "idle"
    /\ handler = "none"
    /\ pgbouncer = FALSE
    /\ recoveryDisabled = FALSE
    /\ clock = 0
    /\ tickReady = FALSE
    /\ lastTick = NoTick
    /\ waitResult = "none"
    /\ events = <<>>
    /\ hresult = <<>>
    /\ readyAt = -1

(***************************************************************************)
(* waitForStandbyPromotion                                                 *)
(***************************************************************************)
\* the cluster the handlers are invoked for
HandledCluster == "a"

\* stdout of "psql -t -c 'select pg_is_in_recovery()'", as characters; the empty
\* output is what a failed exec leaves
RecoveryOutputs == {<<" ", "f">>, <<" ", "t">>, <<>>}

\* strings.Contains(isInRecoveryStr, "f")
ContainsF(str) == \E i \in 1..Len(str) : str[i] = "f"

\* a JSON value as json.Unmarshal stores it in a map[string]interface{}
JString(v) == [t |-> "string", v |-> v]
JBool(v) == [t |-> "bool", v |-> v]
JNumber(v) == [t |-> "number", v |-> v]
\* nil: a JSON null, or what indexing a map gives for an absent key
Nil == [t |-> "nil", v |-> ""]

StateValues == {JString("running"), JString("stopped"), JNumber("5")}
PendingRestartValues == {Nil, JBool("true"), JBool("false"), JString("yes")}

\* the objects "curl localhost:<port>/master" can print
StatusObjects ==
    {<<>>} \cup {[k \in {"state"} |-> st] : st \in StateValues}
           \cup {[k \in {"pending_restart"} |-> pr] : pr \in PendingRestartValues}
           \cup {[k \in {"state", "pending_restart"} |->
                     IF k = "state" THEN st ELSE pr]
                     : st \in StateValues, pr \in PendingRestartValues}

\* stdout of the leader status probe: a JSON object, or text that is no JSON
\* object (the empty output of a failed exec included)
StatusPayloads ==
    {[valid |-> TRUE, obj |-> o] : o \in StatusObjects}
        \cup {[valid |-> FALSE, obj |-> <<>>]}

\* json.Unmarshal([]byte(primaryJSONStr), &primaryJSON): the map stays nil on error
Unmarshal(payload) == IF payload.valid THEN payload.obj ELSE <<>>

\* primaryJSON[key]
MapGet(m, key) == IF key \in DOMAIN m THEN m[key] ELSE Nil

\* primaryJSON["pending_restart"].(bool) panics for a value that is no bool
AssertionPanics(m) ==
    /\ MapGet(m, "state") = JString("running")
    /\ MapGet(m, "pending_restart") # Nil
    /\ MapGet(m, "pending_restart").t # "bool"

\* the condition with the pending_restart flag required to be present and false
LeaderReadyRequiresFlag(m) ==
    /\ MapGet(m, "state") = JString("running")
    /\ MapGet(m, "pending_restart") = JBool("false")

\* the condition with the pending_restart flag left out
LeaderReadyIgnoringRestart(m) == MapGet(m, "state") = JString("running")

\* the condition under which the tick returns nil
LeaderReady(m) ==
    /\ MapGet(m, "state") = JString("running")
    /\ \/ MapGet(m, "pending_restart") = Nil
       \/ MapGet(m, "pending_restart") = JBool("false")

\* the member polled is out of recovery, running and without a pending restart,
\* and stays so: every exec from now on reports it
MemberReady == readyAt >= 0

\* what signal A prints for a member that is ready
ReadyRecoveryOutputs == {<<" ", "f">>}

\* what signal B prints for a member that is ready: state "running" and
\* pending_restart absent, null or false
ReadyStatusPayloads ==
    {[valid |-> TRUE, obj |-> o] :
        o \in {[k \in {"state"} |-> JString("running")]}
                \cup {[k \in {"state", "pending_restart"} |->
                          IF k = "state" THEN JString("running") ELSE pr]
                          : pr \in {Nil, JBool("false")}}}

\* what the two execs of a tick can return now
ReadableRecoveryOutputs == IF MemberReady THEN ReadyRecoveryOutputs ELSE RecoveryOutputs
ReadableStatusPayloads == IF MemberReady THEN ReadyStatusPayloads ELSE StatusPayloads

\* the member becomes ready for good while the wait polls it
MemberBecomesReady ==
    /\ hpc = "wait"
    /\ ~MemberReady
    /\ readyAt' = clock
    /\ UNCHANGED <<hpc, handler, pgbouncer, recoveryDisabled, clock, tickReady,
                   lastTick, waitResult, events, hresult, cloneVars>>

\* the rotation of the pgBouncer passwords requested whatever the label says
AfterWaitAlwaysRotating == "rotate"

\* what a finished wait makes handleStandbyPromotion do next
AfterWait == IF pgbouncer THEN "rotate" ELSE "getPods"

TimeoutError ==
    <<"timed out waiting for cluster ", HandledCluster,
      " to accept writes after disabling standby mode">>

\* 500 ms pass: the ticker puts a value in its channel (of capacity one)
Advance ==
    /\ hpc = "wait"
    /\ clock < DeadlineTicks + ExtraTicks
    /\ clock' = clock + 1
    /\ tickReady' = TRUE
    /\ UNCHANGED <<hpc, handler, pgbouncer, recoveryDisabled, lastTick, waitResult,
                   events, hresult, cloneVars, readyAt>>

\* the timeout of the wait taken for its success
WaitTimeoutIgnored ==
    /\ hpc = "wait"
    /\ clock >= DeadlineTicks
    /\ waitResult' = "timeout"
    /\ hpc' = AfterWait
    /\ UNCHANGED <<handler, pgbouncer, recoveryDisabled, clock, tickReady, lastTick,
                   events, hresult, cloneVars, readyAt>>

\* case <-duration: the deadline has passed and select picks it
WaitTimeout ==
    /\ hpc = "wait"
    /\ clock >= DeadlineTicks
    /\ waitResult' = "timeout"
    /\ hresult' = TimeoutError
    /\ hpc' = "done"
    /\ UNCHANGED <<handler, pgbouncer, recoveryDisabled, clock, tickReady, lastTick,
                   events, cloneVars, readyAt>>

\* the tick case with signal A queried and assigned at every tick
WaitTickRecheckingRecovery ==
    /\ hpc = "wait"
    /\ tickReady
    /\ tickReady' = FALSE
    /\ \E outA \in ReadableRecoveryOutputs, outB \in ReadableStatusPayloads :
          LET rd == ContainsF(outA)
              primaryJSON == Unmarshal(outB)
          IN  /\ recoveryDisabled' = rd
              /\ lastTick' = [startRD |-> recoveryDisabled, issuedA |-> TRUE,
                              issuedB |-> rd, outA |-> outA,
                              outB |-> IF rd THEN outB ELSE NoTick.outB]
              /\ IF rd /\ AssertionPanics(primaryJSON)
                 THEN /\ waitResult' = "panic"
                      /\ hpc' = "panicked"
                 ELSE IF rd /\ LeaderReady(primaryJSON)
                 THEN /\ waitResult' = "ok"
                      /\ hpc' = AfterWait
                 ELSE UNCHANGED <<waitResult, hpc>>
    /\ UNCHANGED <<handler, pgbouncer, clock, events, hresult, cloneVars, readyAt>>

\* case <-tick: the whole body of the tick case
WaitTick ==
    /\ hpc = "wait"
    /\ tickReady
    /\ tickReady' = FALSE
    /\ \E outA \in ReadableRecoveryOutputs, outB \in ReadableStatusPayloads :
          LET issueA == ~recoveryDisabled
              rd == IF issueA /\ ContainsF(outA) THEN TRUE ELSE recoveryDisabled
              issueB == rd
              primaryJSON == Unmarshal(outB)
          IN  /\ recoveryDisabled' = rd
              /\ lastTick' = [startRD |-> recoveryDisabled, issuedA |-> issueA,
                              issuedB |-> issueB,
                              outA |-> IF issueA THEN outA ELSE <<>>,
                              outB |-> IF issueB THEN outB ELSE NoTick.outB]
              /\ IF issueB /\ AssertionPanics(primaryJSON)
                 THEN /\ waitResult' = "panic"
                      /\ hpc' = "panicked"
                 ELSE IF issueB /\ LeaderReady(primaryJSON)
                 THEN /\ waitResult' = "ok"
                      /\ hpc' = AfterWait
                 ELSE UNCHANGED <<waitResult, hpc>>
    /\ UNCHANGED <<handler, pgbouncer, clock, events, hresult, cloneVars, readyAt>>

(***************************************************************************)
(* The handlers and cleanAndCreatePostFailoverBackup                       *)
(***************************************************************************)
\* most pods the label selector of the backrest-repo pod can match
MaxPods == 2

\* a call to a collaborator: what is called, for which cluster, whether it
\* succeeded and, for the pod lookup, how many pods it returned
Event(op, ok) == [op |-> op, ok |-> ok, n |-> 0, cluster |-> HandledCluster]

PodsLenError == <<"pods len != 1 for cluster ", HandledCluster>>

\* a pod is seen to carry the promoted role: the controller calls one handler
HandlerStart ==
    /\ hpc = "idle"
    /\ \E h \in {"plain", "standby"}, b \in BOOLEAN :
          /\ handler' = h
          /\ pgbouncer' = b
          /\ hpc' = IF h = "standby" THEN "wait" ELSE "getPods"
          /\ events' = IF h = "standby" THEN <<Event("wait", TRUE)>> ELSE <<>>
    /\ UNCHANGED <<recoveryDisabled, clock, tickReady, lastTick, waitResult, hresult,
                   cloneVars, readyAt>>

\* clusteroperator.CreatePgTaskforUpdatepgBouncer and the check of its error
RotatePassword ==
    /\ hpc = "rotate"
    /\ \E ok \in BOOLEAN :
          /\ events' = Append(events, Event("rotate", ok))
          /\ IF ok
             THEN hpc' = "getPods" /\ UNCHANGED hresult
             ELSE hpc' = "done" /\ hresult' = <<"create pgtask failed">>
    /\ UNCHANGED <<handler, pgbouncer, recoveryDisabled, clock, tickReady, lastTick,
                   waitResult, cloneVars, readyAt>>

\* the check of the number of pods rejecting only an empty list
GetBackrestRepoPodsAtLeastOne ==
    /\ hpc = "getPods"
    /\ \E n \in 0..MaxPods, err \in BOOLEAN :
          /\ events' = Append(events, [Event("getPods", ~err) EXCEPT !.n = n])
          /\ IF n = 0
             THEN hpc' = "done" /\ hresult' = PodsLenError
             ELSE IF err
             THEN hpc' = "done" /\ hresult' = <<"get pods failed">>
             ELSE hpc' = "cleanup" /\ UNCHANGED hresult
    /\ UNCHANGED <<handler, pgbouncer, recoveryDisabled, clock, tickReady, lastTick,
                   waitResult, cloneVars, readyAt>>

\* kubeapi.GetPods and the checks of its result
GetBackrestRepoPods ==
    /\ hpc = "getPods"
    /\ \E n \in 0..MaxPods, err \in BOOLEAN :
          /\ events' = Append(events, [Event("getPods", ~err) EXCEPT !.n = n])
          /\ IF n # 1
             THEN hpc' = "done" /\ hresult' = PodsLenError
             ELSE IF err
             THEN hpc' = "done" /\ hresult' = <<"get pods failed">>
             ELSE hpc' = "cleanup" /\ UNCHANGED hresult
    /\ UNCHANGED <<handler, pgbouncer, recoveryDisabled, clock, tickReady, lastTick,
                   waitResult, cloneVars, readyAt>>

\* the cleanup with its error dropped
CleanBackupResourcesErrorDropped ==
    /\ hpc = "cleanup"
    /\ \E ok \in BOOLEAN :
          /\ events' = Append(events, Event("cleanup", ok))
          /\ hpc' = "create"
          /\ UNCHANGED hresult
    /\ UNCHANGED <<handler, pgbouncer, recoveryDisabled, clock, tickReady, lastTick,
                   waitResult, cloneVars, readyAt>>

\* backrest.CleanBackupResources and the check of its error
CleanBackupResources ==
    /\ hpc = "cleanup"
    /\ \E ok \in BOOLEAN :
          /\ events' = Append(events, Event("cleanup", ok))
          /\ IF ok
             THEN hpc' = "create" /\ UNCHANGED hresult
             ELSE hpc' = "done" /\ hresult' = <<"clean backup resources failed">>
    /\ UNCHANGED <<handler, pgbouncer, recoveryDisabled, clock, tickReady, lastTick,
                   waitResult, cloneVars, readyAt>>

\* backrest.CreatePostFailoverBackup, the check of its error and the return
CreatePostFailoverBackup ==
    /\ hpc = "create"
    /\ \E ok \in BOOLEAN :
          /\ events' = Append(events, Event("create", ok))
          /\ hpc' = "done"
          /\ hresult' = IF ok THEN <<>> ELSE <<"create post-failover backup failed">>
    /\ UNCHANGED <<handler, pgbouncer, recoveryDisabled, clock, tickReady, lastTick,
                   waitResult, cloneVars, readyAt>>

PromoSpecInit ==
    /\ PromoIdle
    /\ clusters = {HandledCluster}
    /\ notUpgraded = {}
    /\ tasks = <<>>
    /\ pc = [p \in Procs |-> "idle"]
    /\ request = [p \in Procs |-> NoRequest]
    /\ response = [p \in Procs |-> InitialResponse]
    /\ workflowID = [p \in Procs |-> NoWorkflowID]
    /\ calls = [p \in Procs |-> <<>>]

PromoNext ==
    \/ HandlerStart
    \/ Advance
    \/ MemberBecomesReady
    \/ WaitTimeout
    \/ WaitTick
    \/ RotatePassword
    \/ GetBackrestRepoPods
    \/ CleanBackupResources
    \/ CreatePostFailoverBackup

\* one invocation of a promotion handler
PromoSpec == PromoSpecInit /\ [][PromoNext]_vars

CloneSpecInit == CloneInit /\ PromoIdle

CloneNext ==
    \E p \in Procs :
        \/ CloneStart(p)
        \/ CloneGetSource(p)
        \/ CloneGetTarget(p)
        \/ CloneListTasks(p)
        \/ CloneCreateWorkflow(p)
        \/ CloneCreateTask(p)

\* concurrent Clone invocations against one store
CloneSpec == CloneSpecInit /\ [][CloneNext]_vars

\* Clone is entered by p while no other invocation is running
SeqCloneStart(p) ==
    /\ \A q \in Procs \ {p} : pc[q] \in {"idle", "done"}
    /\ CloneStart(p)

SeqCloneInit == CloneInit /\ PromoIdle

SeqCloneNext ==
    \E p \in Procs :
        \/ SeqCloneStart(p)
        \/ CloneGetSource(p)
        \/ CloneGetTarget(p)
        \/ CloneListTasks(p)
        \/ CloneCreateWorkflow(p)
        \/ CloneCreateTask(p)

\* Clone invocations that do not overlap: each runs to its return before the
\* next is entered
SeqCloneSpec == SeqCloneInit /\ [][SeqCloneNext]_vars

(***************************************************************************)
(* Properties of Clone                                                     *)
(***************************************************************************)
Started(p) == pc[p] # "idle"
Done(p) == pc[p] = "done"

\* the calls of invocation p that are op
CallsOf(p, op) == {i \in 1..Len(calls[p]) : calls[p][i].op = op}

\* the tasks invocation p has created in the store
CreatedBy(p) ==
    {t \in Range(tasks) :
        \E i \in CallsOf(p, "create") :
            calls[p][i].out = "created" /\ calls[p][i].name = t.name}

WorkflowRecordsBy(p) == {t \in CreatedBy(p) : t.type = PgtaskWorkflow}
StepOneTasksBy(p) == {t \in CreatedBy(p) : t.type = PgtaskCloneStep1}

\* C1 as stated: a Clone request with an empty TargetClusterName is answered
\* with an Error status before the invocation has made any resource-store call.
C1_NoStoreCallAtAll ==
    \A p \in Procs :
        (Started(p) /\ request[p].TargetClusterName = "") => calls[p] = <<>>

\* C1 (amended): a Clone request with an empty TargetClusterName makes exactly
\* one resource-store call, the get of the source cluster, never a list or a
\* create, and is answered with an Error status.
C1_EmptyTargetRejectedAfterSourceGet ==
    \A p \in Procs :
        (Started(p) /\ request[p].TargetClusterName = "") =>
            /\ pc[p] \in {"getSource", "done"}
            /\ Done(p) =>
                  /\ response[p].Code = Error
                  /\ Len(calls[p]) = 1
                  /\ calls[p][1].op = "get"
                  /\ calls[p][1].name = request[p].SourceClusterName
            /\ CallsOf(p, "list") = {} /\ CallsOf(p, "create") = {}
            /\ CreatedBy(p) = {}

C1_Witness ==
    \E p \in Procs :
        /\ Done(p)
        /\ request[p].TargetClusterName = ""
        /\ response[p].Code = Error
        /\ response[p].Msg = <<"the target cluster name must be set">>
        /\ Len(calls[p]) = 1 /\ calls[p][1].out = "found"

\* the last resource-store call of p was a successful list that saw a conflict
ConflictSeen(p) ==
    /\ calls[p] # <<>>
    /\ calls[p][Len(calls[p])].op = "list"
    /\ calls[p][Len(calls[p])].out = "listed"
    /\ calls[p][Len(calls[p])].conflicts # {}

\* C2: when the conflict check of a Clone request for target T runs over a task
\* list and the store holds a clone-labelled task for T that is not completed,
\* Clone returns an Error status whose message names such a task, and the
\* invocation creates neither a WorkflowRecord nor a Task.
C2_ConflictRejected ==
    \A p \in Procs :
        /\ ConflictSeen(p) =>
              /\ Done(p)
              /\ response[p].Code = Error
              /\ \E n \in calls[p][Len(calls[p])].conflicts :
                    MsgContains(response[p].Msg, n)
              /\ CreatedBy(p) = {}
        /\ \A i \in CallsOf(p, "list") :
              calls[p][i].conflicts # {} =>
                  /\ i = Len(calls[p])
                  /\ Done(p) /\ response[p].Code = Error

C2_Witness ==
    \E p \in Procs :
        /\ ConflictSeen(p)
        /\ Done(p)
        /\ MsgContains(response[p].Msg,
               "Could not clone cluster: there exists an ongoing clone task: [")

\* the source lookup of invocation p returned the source cluster
SourceFound(p) ==
    /\ calls[p] # <<>>
    /\ calls[p][1].out = "found"
    /\ request[p].SourceClusterName \in clusters

\* the preconditions C3 states
C3_Stated(p) ==
    /\ Done(p)
    /\ SourceFound(p)
    /\ request[p].SourceClusterName \notin notUpgraded
    /\ validateCloneRequest(request[p], Pgcluster(request[p].SourceClusterName)) = <<>>
    /\ request[p].TargetClusterName \notin clusters
    /\ \A i \in CallsOf(p, "list") : calls[p][i].conflicts = {}
    /\ \A i \in CallsOf(p, "create") : calls[p][i].out = "created"

\* what C3 concludes
C3_Result(p) ==
    /\ Cardinality(WorkflowRecordsBy(p)) = 1
    /\ Cardinality(StepOneTasksBy(p)) = 1
    /\ Cardinality(CreatedBy(p)) = 2
    /\ \A t \in CreatedBy(p) :
          t.wfid = response[p].WorkflowID /\ t.wfid # NoWorkflowID

\* C3 as stated: the source is found and is upgraded, the request is valid, the target
\* does not exist, no conflicting task exists and every store write succeeds;
\* then exactly one WorkflowRecord and one clone-step-1 Task are created with the
\* returned workflow identifier.
C3_AsStated == \A p \in Procs : C3_Stated(p) => C3_Result(p)

\* the read of the kernel's uuid file failed in invocation p
UUIDReadFailed(p) == MsgContains(response[p].Msg, "read failed")

\* the list of the clone tasks did not fail in invocation p
ListSucceeded(p) == \A i \in CallsOf(p, "list") : calls[p][i].out = "listed"

\* C3 (amended): under the stated preconditions and provided also that the
\* list of the clone tasks succeeds and the workflow identifier can be read,
\* Clone creates exactly one WorkflowRecord and exactly one
\* clone-step-1 Task, both carrying the workflow identifier of the response.
C3_OneWorkflowOneTask ==
    \A p \in Procs :
        (C3_Stated(p) /\ ListSucceeded(p) /\ ~UUIDReadFailed(p)) =>
            (C3_Result(p) /\ response[p].Code = Ok)

C3_Witness ==
    \E p \in Procs :
        /\ C3_Stated(p) /\ ListSucceeded(p) /\ ~UUIDReadFailed(p)
        /\ response[p].Code = Ok
        /\ Cardinality(CreatedBy(p)) = 2

\* C4 as stated: whenever the source cluster found carries the not-upgraded flag,
\* Clone returns an Error status whose message contains the source cluster name
\* and the upgrade error text, and creates nothing.
C4_AsStated ==
    \A p \in Procs :
        (Done(p) /\ SourceFound(p) /\ request[p].SourceClusterName \in notUpgraded) =>
            /\ response[p].Code = Error
            /\ MsgContains(response[p].Msg, request[p].SourceClusterName)
            /\ MsgContains(response[p].Msg, UpgradeError)
            /\ CreatedBy(p) = {}

\* C4 (amended): if the source cluster carries the not-upgraded flag, Clone
\* returns an Error status and creates no WorkflowRecord and no Task; when the
\* source lookup returned the cluster and the request passed validation, the
\* message contains the source cluster name and the upgrade error text.
C4_NotUpgradedRejected ==
    \A p \in Procs :
        (Done(p) /\ request[p].SourceClusterName \in notUpgraded) =>
            /\ response[p].Code = Error
            /\ CreatedBy(p) = {}
            /\ CallsOf(p, "create") = {}
            /\ (/\ calls[p][1].out = "found"
                /\ validateCloneRequest(request[p],
                       Pgcluster(request[p].SourceClusterName)) = <<>>) =>
                  /\ MsgContains(response[p].Msg, request[p].SourceClusterName)
                  /\ MsgContains(response[p].Msg, UpgradeError)
                  /\ Len(calls[p]) = 1

C4_Witness ==
    \E p \in Procs :
        /\ Done(p)
        /\ request[p].SourceClusterName \in notUpgraded
        /\ response[p].Msg = <<request[p].SourceClusterName, UpgradeError>>

\* invocation p has performed its lookup of the target cluster
TargetLookedUp(p) == Len(calls[p]) >= 2

\* C5: if a cluster with the target name exists in the store when Clone
\* performs its target lookup, Clone returns a "target already exists" Error
\* status and makes no list and no create call afterwards.
C5_ExistingTargetRejected ==
    \A p \in Procs :
        (TargetLookedUp(p) /\ request[p].TargetClusterName \in clusters) =>
            /\ Done(p)
            /\ response[p].Code = Error
            /\ MsgContains(response[p].Msg, " already exists")
            /\ Len(calls[p]) = 2

\* C6: the response is Ok with a non-empty TargetClusterName and WorkflowID
\* exactly when both the WorkflowRecord and the step-one Task were created; on
\* every failure path it is Error with a message and with TargetClusterName and
\* WorkflowID empty; every invocation ends by returning a response.
C6_ResponseShape ==
    \A p \in Procs :
        /\ pc[p] \in {"idle", "getSource", "getTarget", "listTasks",
                      "createWorkflow", "createTask", "done"}
        /\ Done(p) =>
              /\ response[p].Code \in {Ok, Error}
              /\ response[p].Code = Ok <=>
                    (WorkflowRecordsBy(p) # {} /\ StepOneTasksBy(p) # {})
              /\ response[p].Code = Ok =>
                    /\ response[p].TargetClusterName = request[p].TargetClusterName
                    /\ response[p].TargetClusterName # ""
                    /\ response[p].WorkflowID # NoWorkflowID
                    /\ response[p].Msg = <<>>
              /\ response[p].Code = Error =>
                    /\ response[p].Msg # <<>>
                    /\ response[p].TargetClusterName = ""
                    /\ response[p].WorkflowID = NoWorkflowID

C6_Witness ==
    \E p, q \in Procs :
        /\ Done(p) /\ response[p].Code = Ok
        /\ Done(q) /\ response[q].Code = Error
        /\ MsgContains(response[q].Msg, "Could not create clone task: ")
        /\ WorkflowRecordsBy(q) # {}

(***************************************************************************)
(* Properties of the promotion handlers                                    *)
(***************************************************************************)
\* the positions in events of the calls of op
EventsOf(op) == {i \in 1..Len(events) : events[i].op = op}

\* the pod lookup has returned exactly one pod and no error
OnePodFound == \E i \in EventsOf("getPods") : events[i].n = 1 /\ events[i].ok

\* the pod lookup has returned no pod, or more than one
NotOnePodFound == \E i \in EventsOf("getPods") : events[i].n # 1

HandlerDone == hpc = "done"

\* C7 as stated: with exactly one matching pod, cleanup is invoked and then
\* create is invoked; with zero or several, neither is invoked and an error
\* naming the cluster is returned.
C7_AsStated ==
    HandlerDone =>
        /\ OnePodFound =>
              \E i \in EventsOf("cleanup"), j \in EventsOf("create") : i < j
        /\ NotOnePodFound =>
              /\ EventsOf("cleanup") = {} /\ EventsOf("create") = {}
              /\ hresult = PodsLenError

\* C7 (amended): with exactly one matching pod, cleanup is invoked, and create
\* is invoked after it exactly when cleanup succeeded; create is never invoked
\* but right after a successful cleanup, nor cleanup but right after a lookup
\* that found one pod; with zero or several pods neither is invoked and the
\* error returned names the cluster.
C7_CleanupThenCreate ==
    /\ \A j \in EventsOf("create") :
          j > 1 /\ events[j - 1].op = "cleanup" /\ events[j - 1].ok
    /\ \A i \in EventsOf("cleanup") :
          i > 1 /\ events[i - 1].op = "getPods" /\ events[i - 1].n = 1
                /\ events[i - 1].ok
    /\ HandlerDone =>
          /\ OnePodFound =>
                /\ EventsOf("cleanup") # {}
                /\ EventsOf("create") # {} <=>
                      \E i \in EventsOf("cleanup") : events[i].ok
          /\ NotOnePodFound =>
                /\ EventsOf("cleanup") = {} /\ EventsOf("create") = {}
                /\ hresult = PodsLenError
                /\ MsgContains(hresult, HandledCluster)

C7_Witness ==
    /\ HandlerDone
    /\ OnePodFound
    /\ Len(events) >= 3
    /\ events[Len(events) - 1].op = "cleanup"
    /\ events[Len(events)].op = "create"

\* C8 as stated: with exactly one matching pod both cleanup and create are
\* attempted, a failure of either returns a non-nil error, and no step is
\* retried.
C8_AsStated ==
    (HandlerDone /\ OnePodFound) =>
        /\ Cardinality(EventsOf("cleanup")) = 1
        /\ Cardinality(EventsOf("create")) = 1
        /\ (\E i \in EventsOf("cleanup") \cup EventsOf("create") : ~events[i].ok)
              => hresult # <<>>

\* C8 (amended): with exactly one matching pod the cleanup is attempted once,
\* the create is attempted once if the cleanup succeeded and not at all if it
\* failed, and the invocation returns a non-nil error exactly when one of the
\* two steps failed.
C8_FailureSurfacedNoRetry ==
    (HandlerDone /\ OnePodFound) =>
        /\ Cardinality(EventsOf("cleanup")) = 1
        /\ Cardinality(EventsOf("create")) =
              IF \E i \in EventsOf("cleanup") : events[i].ok THEN 1 ELSE 0
        /\ hresult # <<>> <=>
              \E i \in EventsOf("cleanup") \cup EventsOf("create") : ~events[i].ok

C8_Witness ==
    /\ HandlerDone
    /\ OnePodFound
    /\ \E i \in EventsOf("cleanup") : ~events[i].ok
    /\ EventsOf("create") = {}
    /\ hresult = <<"clean backup resources failed">>

\* the place of a step in the fixed order of handleStandbyPromotion
StepRank(op) ==
    IF op = "wait" THEN 0 ELSE IF op = "rotate" THEN 1 ELSE IF op = "getPods" THEN 2
    ELSE IF op = "cleanup" THEN 3 ELSE 4

\* C9: in handleStandbyPromotion the steps occur in the order wait, optional
\* rotation task creation, backup orchestration; after a failed wait no
\* rotation task is created and no backup cleanup or create is invoked, after a
\* failed rotation-task creation no backup cleanup or create is invoked, and
\* the error of the failing step is returned.  (A wait ended by the panic of the
\* type assertion returns nothing; no later step runs then either.)
C9_StandbyOrder ==
    handler = "standby" =>
        /\ events # <<>> /\ events[1].op = "wait"
        /\ \A i, j \in 1..Len(events) :
              i < j => StepRank(events[i].op) < StepRank(events[j].op)
        /\ Len(events) > 1 => waitResult = "ok"
        /\ waitResult \in {"timeout", "panic"} => Len(events) = 1
        /\ (HandlerDone /\ waitResult = "timeout") => hresult = TimeoutError
        /\ \A i \in EventsOf("rotate") :
              ~events[i].ok =>
                  /\ i = Len(events)
                  /\ HandlerDone /\ hresult = <<"create pgtask failed">>
        /\ (EventsOf("getPods") # {} /\ pgbouncer) =>
              \E i \in EventsOf("rotate") : events[i].ok

C9_Witness ==
    /\ handler = "standby"
    /\ HandlerDone
    /\ hresult = <<>>
    /\ [i \in 1..Len(events) |-> events[i].op] =
          <<"wait", "rotate", "getPods", "cleanup", "create">>

\* C10: within one invocation of waitForStandbyPromotion recoveryDisabled never
\* goes back from true to false, and a tick at which signal A reports "not in
\* recovery" leaves it true.
C10_RecoveryDisabledMonotonic ==
    [][/\ recoveryDisabled => recoveryDisabled'
       /\ (lastTick' # lastTick /\ lastTick'.issuedA /\ ContainsF(lastTick'.outA))
             => recoveryDisabled']_vars

C10_Witness ==
    /\ hpc = "wait"
    /\ recoveryDisabled
    /\ lastTick.startRD
    /\ ~lastTick.issuedA
    /\ lastTick.issuedB

\* the wait of the standby handler is over, by a return or otherwise
WaitOver == handler = "standby" /\ hpc \notin {"idle", "wait"}

\* a tick of the wait is handled in this step
TickHandled == hpc = "wait" /\ tickReady /\ ~tickReady'

\* C11: every invocation of waitForStandbyPromotion returns; when the readiness
\* condition was satisfied at no tick, what it returns is the timeout error
\* naming the cluster, and not before the deadline has elapsed.
C11_AsStated ==
    (WaitOver /\ waitResult # "ok") =>
        /\ waitResult = "timeout"
        /\ hresult = TimeoutError
        /\ MsgContains(hresult, HandledCluster)
        /\ clock >= DeadlineTicks

\* the member became ready for good before the deadline
ReadyBeforeDeadline == MemberReady /\ readyAt < DeadlineTicks

\* C12 as stated: if the readiness condition becomes true before the deadline
\* and stays true, the wait returns success, and it is over no later than one
\* poll interval after the deadline.
C12_AsStated ==
    /\ (ReadyBeforeDeadline /\ WaitOver) => waitResult = "ok"
    /\ (ReadyBeforeDeadline /\ hpc = "wait") => clock <= DeadlineTicks + 1

\* C12: once the readiness condition is true for good, every tick that is
\* handled returns success; the wait then ends in success or in the timeout
\* error and in nothing else, and the timeout error is returned only once the
\* deadline has elapsed.
C12_ReadyTickSucceeds ==
    /\ [][(MemberReady /\ TickHandled) => waitResult' = "ok"]_vars
    /\ [](waitResult = "timeout" => clock >= DeadlineTicks)
    /\ []((MemberReady /\ WaitOver) => waitResult \in {"ok", "timeout"})

C12_Witness ==
    /\ ReadyBeforeDeadline
    /\ waitResult = "ok"
    /\ lastTick.issuedB
    /\ "pending_restart" \notin DOMAIN lastTick.outB.obj
    /\ clock < DeadlineTicks

\* a status payload that is no JSON object, or has no "state", or has a
\* "state" that is no string or a "pending_restart" that is neither a bool nor
\* null
Malformed(payload) ==
    \/ ~payload.valid
    \/ "state" \notin DOMAIN payload.obj
    \/ payload.obj["state"].t # "string"
    \/ /\ "pending_restart" \in DOMAIN payload.obj
       /\ payload.obj["pending_restart"].t \notin {"bool", "nil"}

\* C13: a tick at which signal B's payload is malformed (the empty output of a
\* failed exec included) is treated as not ready: the wait neither returns
\* success nor aborts at that tick.
C13_AsStated ==
    (lastTick.issuedB /\ Malformed(lastTick.outB)) => waitResult \notin {"ok", "panic"}

\* C16: the wait returns success only at a tick at which recoveryDisabled is
\* true and the status read by signal B at that same tick has state "running"
\* and no pending restart.
C16_SuccessOnlyWhenLeaderReady ==
    waitResult = "ok" =>
        /\ recoveryDisabled
        /\ lastTick.issuedB
        /\ lastTick.outB.valid
        /\ MapGet(lastTick.outB.obj, "state") = JString("running")
        /\ MapGet(lastTick.outB.obj, "pending_restart") \in {Nil, JBool("false")}

C16_Witness ==
    /\ waitResult = "ok"
    /\ lastTick.startRD
    /\ ~lastTick.issuedA
    /\ MapGet(lastTick.outB.obj, "pending_restart") = JBool("false")

\* C17: signal A is never issued at a tick that starts with recoveryDisabled
\* true, and signal B is never issued at a tick at which recoveryDisabled is
\* false once signal A has been evaluated.
C17_SignalsGuarded ==
    [][TickHandled =>
          /\ lastTick'.issuedA => ~recoveryDisabled
          /\ lastTick'.issuedB => recoveryDisabled'
          /\ lastTick'.startRD = recoveryDisabled]_vars

C17_Witness ==
    /\ hpc = "wait"
    /\ ~lastTick.startRD
    /\ lastTick.issuedA
    /\ lastTick.issuedB

\* clusteroperator.CreatePgTaskforUpdatepgBouncer: a call that succeeds has
\* created one task carrying the parameters, a call that fails has created none
RotationTasksCreated == {i \in EventsOf("rotate") : events[i].ok}

\* the calls of the backup orchestrator
BackupEvents == EventsOf("getPods") \cup EventsOf("cleanup") \cup EventsOf("create")

\* the standby handler has got success from its wait and is past the rotation
WaitSucceeded == handler = "standby" /\ waitResult = "ok" /\ hpc # "rotate"

\* C18 as stated: in an invocation of handleStandbyPromotion whose wait
\* succeeds, exactly one rotation task naming the cluster is created if the
\* pgbouncer label is "true" and none otherwise, and its creation precedes any
\* backup cleanup or create.
C18_AsStated ==
    WaitSucceeded =>
        /\ Cardinality(RotationTasksCreated) = IF pgbouncer THEN 1 ELSE 0
        /\ \A i \in RotationTasksCreated :
              /\ events[i].cluster = HandledCluster
              /\ \A j \in BackupEvents : i < j

\* C18: in an invocation of handleStandbyPromotion whose wait succeeds,
\* exactly one call creating a rotation task naming the cluster is made if the
\* pgbouncer label is "true" and none otherwise; the call precedes every call
\* of the backup orchestrator; it creates one task when it succeeds, and when
\* it fails no task is created, the handler returns an error and the backup
\* orchestrator is not called.
C18_RotationBeforeBackup ==
    WaitSucceeded =>
        /\ Cardinality(EventsOf("rotate")) = IF pgbouncer THEN 1 ELSE 0
        /\ Cardinality(RotationTasksCreated) <= 1
        /\ \A i \in EventsOf("rotate") :
              /\ events[i].cluster = HandledCluster
              /\ \A j \in BackupEvents : i < j
              /\ ~events[i].ok =>
                    HandlerDone /\ hresult # <<>> /\ BackupEvents = {}

C18_Witness ==
    /\ WaitSucceeded
    /\ pgbouncer
    /\ RotationTasksCreated # {}
    /\ EventsOf("cleanup") # {}
    /\ hpc = "create"

(***************************************************************************)
(* Properties of Clone invocations against one store                       *)
(***************************************************************************)
\* the clone tasks of the target in the store that are not completed
NonCompletedCloneTasks(target) ==
    {t \in Range(tasks) :
        t.clone /\ t.cluster = target /\ t.status # CompletedStatus}

\* the step-one tasks the invocations have created
StepOneTasksCreated == UNION {StepOneTasksBy(p) : p \in Procs}

\* C14: with Clone invocations that do not overlap and no task deleted or
\* completed, at most one non-completed clone task created by Clone exists per
\* target cluster name, and when there is one it is the only non-completed
\* clone task of that target in the store.
C14_OneOngoingClonePerTarget ==
    \A target \in TargetNames :
        LET created == NonCompletedCloneTasks(target) \cap StepOneTasksCreated
        IN  /\ Cardinality(created) <= 1
            /\ created # {} => NonCompletedCloneTasks(target) = created

C14_Witness ==
    \E p \in Procs, q \in Procs :
        /\ p # q
        /\ Done(p) /\ response[p].Code = Ok
        /\ StepOneTasksBy(p) \cap NonCompletedCloneTasks(request[p].TargetClusterName) # {}
        /\ Done(q) /\ request[q].TargetClusterName = request[p].TargetClusterName
        /\ ConflictSeen(q)
        /\ \E n \in {t.name : t \in StepOneTasksBy(p)} : MsgContains(response[q].Msg, n)

\* invocations p and q have both returned Ok for the same target
BothOk(p, q) ==
    /\ p # q
    /\ Done(p) /\ response[p].Code = Ok
    /\ Done(q) /\ response[q].Code = Ok
    /\ request[p].TargetClusterName = request[q].TargetClusterName

\* C15: two concurrent Clone invocations for the same target can both return
\* Ok; whenever they do, both have passed the conflict check seeing no task in
\* the way, and two WorkflowRecords and two non-completed step-one tasks exist
\* for that target.
C15_BothPassConflictCheck ==
    \A p \in Procs, q \in Procs :
        BothOk(p, q) =>
            /\ \A r \in {p, q} : \A i \in CallsOf(r, "list") :
                  calls[r][i].out = "listed" /\ calls[r][i].conflicts = {}
            /\ Cardinality(WorkflowRecordsBy(p) \cup WorkflowRecordsBy(q)) = 2
            /\ Cardinality((StepOneTasksBy(p) \cup StepOneTasksBy(q))
                   \cap NonCompletedCloneTasks(request[p].TargetClusterName)) = 2

C15_Witness ==
    \E p \in Procs, q \in Procs :
        /\ BothOk(p, q)
        /\ request[p].TargetClusterName = "b"
        /\ Cardinality(NonCompletedCloneTasks("b") \cap StepOneTasksCreated) = 2
        /\ Cardinality({t \in Range(tasks) : t.type = PgtaskWorkflow /\ t.cluster = "b"}) = 2

\* the position in the store of the task named name
PositionOf(name) == CHOOSE i \in 1..Len(tasks) : tasks[i].name = name

\* C19: every step-one task created by a Clone invocation carries a workflow
\* identifier for which a WorkflowRecord exists in the store, created by the
\* same invocation strictly before the step-one task.
C19_WorkflowRecordFirst ==
    \A p \in Procs : \A t \in StepOneTasksBy(p) :
        \E w \in WorkflowRecordsBy(p) :
            /\ w.wfid = t.wfid
            /\ PositionOf(w.name) < PositionOf(t.name)
            /\ \E i \in CallsOf(p, "create"), j \in CallsOf(p, "create") :
                  /\ i < j
                  /\ calls[p][i].name = w.name
                  /\ calls[p][j].name = t.name

C19_Witness ==
    \E p \in Procs, q \in Procs :
        /\ p # q
        /\ StepOneTasksBy(p) # {}
        /\ pc[q] = "createTask"
        /\ WorkflowRecordsBy(q) # {}
        /\ StepOneTasksBy(q) = {}

\* C20: a Clone invocation that has returned an Error status has created no
\* step-one task; it has created at most a WorkflowRecord, which is still in
\* the store, and it has created one exactly when the creation of the
\* step-one task was attempted and failed.
C20_ErrorCreatesNoTask ==
    \A p \in Procs :
        (Done(p) /\ response[p].Code = Error) =>
            /\ StepOneTasksBy(p) = {}
            /\ \A i \in CallsOf(p, "create") :
                  calls[p][i].out = "created" =>
                      \E t \in WorkflowRecordsBy(p) : t.name = calls[p][i].name
            /\ Cardinality(WorkflowRecordsBy(p)) <= 1
            /\ WorkflowRecordsBy(p) # {} <=>
                  /\ MsgContains(response[p].Msg, "Could not create clone task: ")
                  /\ calls[p][Len(calls[p])].op = "create"
                  /\ calls[p][Len(calls[p])].out = "failed"
                  /\ calls[p][Len(calls[p])].name =
                        CloneTaskCreate(request[p], workflowID[p]).name

C20_Witness ==
    \E p \in Procs :
        /\ Done(p) /\ response[p].Code = Error
        /\ StepOneTasksBy(p) = {}
        /\ \E t \in WorkflowRecordsBy(p) : t.wfid = workflowID[p]
        /\ calls[p][Len(calls[p])].out = "failed"

=============================================================================
